---- MODULE Spec2Model ----
(***************************************************************************)
(* Business-hours ETL: the opening-hours text normalizer                   *)
(* (src/src/app/process_data.py) and the read queries over the persisted   *)
(* records (src/src/app/crud.py, src/src/app/db/repository.py).            *)
(*                                                                         *)
(* A Python str is modelled as a sequence of characters, each character a  *)
(* one-element TLA+ string; the two non-ASCII characters the code names    *)
(* are written "u2013" (EN DASH) and "u202f" (NARROW NO-BREAK SPACE).      *)
(***************************************************************************)
EXTENDS Integers, Sequences, FiniteSets, TLC

\* ------------------------------------------------------------------------
\* Characters and the str methods the code uses
\* ------------------------------------------------------------------------

DigitChars == <<"0", "1", "2", "3", "4", "5", "6", "7", "8", "9">>

LowerChars == <<"a", "b", "c", "d", "e", "f", "g", "h", "i", "j", "k", "l", "m",
                "n", "o", "p", "q", "r", "s", "t", "u", "v", "w", "x", "y", "z">>

UpperChars == <<"A", "B", "C", "D", "E", "F", "G", "H", "I", "J", "K", "L", "M",
                "N", "O", "P", "Q", "R", "S", "T", "U", "V", "W", "X", "Y", "Z">>

Range(f) == {f[i] : i \in DOMAIN f}

\* \d of the re module (on the ASCII digits)
IsDigit(c) == c \in Range(DigitChars)

DigitVal(c) == (CHOOSE i \in DOMAIN DigitChars : DigitChars[i] = c) - 1

\* \w of the re module: what \b separates from the rest
IsWord(c) == c \in Range(DigitChars) \cup Range(LowerChars) \cup Range(UpperChars) \cup {"_"}

\* str.isspace(): what str.strip() removes and \s matches
IsSpace(c) == c \in {" ", "\t", "\n", "\r", "\f", "u202f"}

\* The character at index i (from 1), "" outside the string
At(s, i) == IF i >= 1 /\ i <= Len(s) THEN s[i] ELSE ""

\* s[i:] of Python, with i counted from 1
From(s, i) == IF i > Len(s) THEN <<>> ELSE SubSeq(s, i, Len(s))

\* pat occurs in s starting at index i
MatchAt(s, i, pat) ==
    /\ i >= 1
    /\ i + Len(pat) - 1 <= Len(s)
    /\ \A k \in 1..Len(pat) : s[i + k - 1] = pat[k]

\* `pat in s`
Contains(s, pat) == \E i \in 1..Len(s) : MatchAt(s, i, pat)

\* str.lower()
LowerChar(c) ==
    IF c \in Range(UpperChars)
    THEN LowerChars[CHOOSE i \in DOMAIN UpperChars : UpperChars[i] = c]
    ELSE c

\* (mutant) the call of .lower() left out
lower_left_out(s) == s

lower(s) == [i \in 1..Len(s) |-> LowerChar(s[i])]

\* str.strip()
strip(s) ==
    LET keep == {i \in 1..Len(s) : ~IsSpace(s[i])}
    IN IF keep = {} THEN <<>>
       ELSE SubSeq(s, CHOOSE i \in keep : \A j \in keep : i <= j,
                      CHOOSE i \in keep : \A j \in keep : i >= j)

\* str.replace(old, new) for a non-empty old: leftmost, non-overlapping
RECURSIVE replace(_, _, _)
replace(s, old, new) ==
    IF s = <<>> THEN <<>>
    ELSE IF MatchAt(s, 1, old) THEN new \o replace(From(s, Len(old) + 1), old, new)
    ELSE <<s[1]>> \o replace(Tail(s), old, new)

\* re.sub(r"[...]", rep, s) for a character class
SubClass(s, class, rep) ==
    [i \in 1..Len(s) |-> IF s[i] \in class THEN rep ELSE s[i]]

\* str.split(sep) for a one-character sep
RECURSIVE split(_, _)
split(s, sep) ==
    LET cuts == {i \in 1..Len(s) : s[i] = sep}
    IN IF cuts = {} THEN <<s>>
       ELSE LET c == CHOOSE i \in cuts : \A j \in cuts : i <= j
            IN <<SubSeq(s, 1, c - 1)>> \o split(From(s, c + 1), sep)

\* (am|pm) at index i
IsMeridiem(s, i) == At(s, i) \in {"a", "p"} /\ At(s, i + 1) = "m"

\* \d{1,2} at index i when what follows cannot be a digit: the length matched
Digits12(s, i) ==
    IF IsDigit(At(s, i)) /\ IsDigit(At(s, i + 1)) THEN 2
    ELSE IF IsDigit(At(s, i)) THEN 1
    ELSE 0

\* ------------------------------------------------------------------------
\* process_data.py
\* ------------------------------------------------------------------------

DashGlyphs == {"u2014", "u2013", "u2212", "u2012", "u2015"}

normalize_dashes(time_range) == SubClass(time_range, DashGlyphs, "-")

\* ^(\d{1,2})(\d{2})(am|pm)$ : 3 or 4 digits, then am or pm, nothing else
fix_irregular_time_format(t) ==
    LET n == Len(t) - 2
    IN IF /\ n \in {3, 4}
          /\ \A i \in 1..n : IsDigit(t[i])
          /\ IsMeridiem(t, n + 1)
       THEN SubSeq(t, 1, n - 2) \o <<":">> \o SubSeq(t, n - 1, Len(t))
       ELSE t

HasMeridiem(t) == Contains(t, <<"a", "m">>) \/ Contains(t, <<"p", "m">>)

\* t[-2:]
LastTwo(t) == IF Len(t) <= 2 THEN t ELSE SubSeq(t, Len(t) - 1, Len(t))

infer_missing_am_pm(start_time, end_time) ==
    LET st == strip(start_time)
        en == strip(end_time)
    IN IF HasMeridiem(st)
       THEN IF ~HasMeridiem(en) THEN <<st, en \o LastTwo(st)>> ELSE <<st, en>>
       ELSE IF HasMeridiem(en) THEN <<st \o LastTwo(en), en>>
       ELSE <<st, en>>


\* None, as convert_to_24h returns it: the code only tests its truth value,
\* and no time string is empty
None == <<>>

\* strftime("%H:%M")
Pad2(n) == <<DigitChars[(n \div 10) + 1], DigitChars[(n % 10) + 1]>>

strftime_HM(hour, minute) == Pad2(hour) \o <<":">> \o Pad2(minute)

\* int() of a run of digits
RECURSIVE IntOf(_)
IntOf(ds) == IF ds = <<>> THEN 0 ELSE 10 * IntOf(SubSeq(ds, 1, Len(ds) - 1)) + DigitVal(ds[Len(ds)])

\* The alternatives of a strptime directive that match at index i, as the
\* lengths they consume, in the order the regular expression tries them.
\* %I : 1[0-2]|0[1-9]|[1-9]
AltsI(t, i) ==
    (IF At(t, i) = "1" /\ At(t, i + 1) \in {"0", "1", "2"} THEN <<2>> ELSE <<>>)
    \o (IF At(t, i) = "0" /\ IsDigit(At(t, i + 1)) /\ At(t, i + 1) # "0" THEN <<2>> ELSE <<>>)
    \o (IF IsDigit(At(t, i)) /\ At(t, i) # "0" THEN <<1>> ELSE <<>>)

\* %H : 2[0-3]|[0-1]\d|\d
AltsH(t, i) ==
    (IF At(t, i) = "2" /\ At(t, i + 1) \in {"0", "1", "2", "3"} THEN <<2>> ELSE <<>>)
    \o (IF At(t, i) \in {"0", "1"} /\ IsDigit(At(t, i + 1)) THEN <<2>> ELSE <<>>)
    \o (IF IsDigit(At(t, i)) THEN <<1>> ELSE <<>>)

\* %M : [0-5]\d|\d
AltsM(t, i) ==
    (IF At(t, i) \in {"0", "1", "2", "3", "4", "5"} /\ IsDigit(At(t, i + 1)) THEN <<2>> ELSE <<>>)
    \o (IF IsDigit(At(t, i)) THEN <<1>> ELSE <<>>)

\* The first element of a sequence of lengths after which the rest of the
\* pattern matches (the lengths in `rest`), 0 if none
FirstAlt(alts, rest) ==
    LET ok == {k \in DOMAIN alts : alts[k] \in rest}
    IN IF ok = {} THEN 0 ELSE alts[CHOOSE k \in ok : \A j \in ok : k <= j]

\* 12-hour clock to 24-hour clock, as _strptime does it
Hour24(hour, ampm) ==
    IF ampm = "a" THEN (IF hour = 12 THEN 0 ELSE hour)
    ELSE (IF hour = 12 THEN 12 ELSE hour + 12)

\* datetime.strptime(t, "%I:%M%p").strftime("%H:%M"), None for ValueError
strptime_IMp(t) ==
    LET MinuteLen(a) ==
            LET MRest(b) == IsMeridiem(t, a + 2 + b)
            IN FirstAlt(AltsM(t, a + 2), {n \in 1..2 : MRest(n)})
        IRest(a) == At(t, a + 1) = ":" /\ MinuteLen(a) > 0
        a == FirstAlt(AltsI(t, 1), {n \in 1..2 : IRest(n)})
        b == MinuteLen(a)
    IN IF a = 0 THEN None
       ELSE IF a + 1 + b + 2 # Len(t) THEN None  \* unconverted data remains
       ELSE strftime_HM(Hour24(IntOf(SubSeq(t, 1, a)), t[a + 2 + b]),
                        IntOf(SubSeq(t, a + 2, a + 1 + b)))

\* datetime.strptime(t, "%I%p").strftime("%H:%M"), None for ValueError
strptime_Ip(t) ==
    LET IRest(a) == IsMeridiem(t, a + 1)
        a == FirstAlt(AltsI(t, 1), {n \in 1..2 : IRest(n)})
    IN IF a = 0 THEN None
       ELSE IF a + 2 # Len(t) THEN None
       ELSE strftime_HM(Hour24(IntOf(SubSeq(t, 1, a)), t[a + 1]), 0)

\* (mutant) the 12-hour directive: strptime(t, "%I:%M")
strptime_HM_12_hour(t) ==
    LET HRest(a) == At(t, a + 1) = ":" /\ AltsM(t, a + 2) # <<>>
        a == FirstAlt(AltsI(t, 1), {n \in 1..2 : HRest(n)})
        b == IF a = 0 THEN 0 ELSE AltsM(t, a + 2)[1]
    IN IF a = 0 THEN None
       ELSE IF a + 1 + b # Len(t) THEN None
       ELSE strftime_HM(IntOf(SubSeq(t, 1, a)) % 12, IntOf(SubSeq(t, a + 2, a + 1 + b)))

\* datetime.strptime(t, "%H:%M").strftime("%H:%M"), None for ValueError
strptime_HM(t) ==
    LET HRest(a) == At(t, a + 1) = ":" /\ AltsM(t, a + 2) # <<>>
        a == FirstAlt(AltsH(t, 1), {n \in 1..2 : HRest(n)})
        b == IF a = 0 THEN 0 ELSE AltsM(t, a + 2)[1]
    IN IF a = 0 THEN None
       ELSE IF a + 1 + b # Len(t) THEN None
       ELSE strftime_HM(IntOf(SubSeq(t, 1, a)), IntOf(SubSeq(t, a + 2, a + 1 + b)))

convert_to_24h(t0) ==
    LET t == SubClass(t0, {"."}, ":")
    IN IF HasMeridiem(t)
       THEN IF ":" \in Range(t) THEN strptime_IMp(t) ELSE strptime_Ip(t)
       ELSE strptime_HM(t)


\* The sentinels
CLOSED == <<"0", "0", ":", "0", "0">>

CLOSED_PAIR == <<CLOSED, CLOSED>>

OPEN_24H_PAIR == <<CLOSED, <<"2", "3", ":", "5", "9">>>>

\* re.sub(r"^[:a-z]{0,4}:", "", s): the longest run of at most 4 characters of
\* the class at the start of the string that a colon follows, with that colon
PrefixClass == Range(LowerChars) \cup {":"}

StripPrefix(s) ==
    LET ks == {k \in 0..4 : /\ \A j \in 1..k : At(s, j) \in PrefixClass
                            /\ At(s, k + 1) = ":"}
    IN IF ks = {} THEN s
       ELSE From(s, (CHOOSE k \in ks : \A j \in ks : k >= j) + 2)

\* a\.?m\.? (letter "a") or p\.?m\.? (letter "p") at the start of s: the
\* length matched, 0 if none
MeridiemDotsLen(s, letter) ==
    LET body == IF At(s, 1) = letter /\ At(s, 2) = "." /\ At(s, 3) = "m" THEN 3
                ELSE IF At(s, 1) = letter /\ At(s, 2) = "m" THEN 2
                ELSE 0
    IN IF body = 0 THEN 0
       ELSE IF At(s, body + 1) = "." THEN body + 1
       ELSE body

\* re.sub(r"a\.?m\.?", "am", s) and re.sub(r"p\.?m\.?", "pm", s)
RECURSIVE SubMeridiemDots(_, _)
SubMeridiemDots(s, letter) ==
    IF s = <<>> THEN <<>>
    ELSE LET n == MeridiemDotsLen(s, letter)
         IN IF n > 0 THEN <<letter, "m">> \o SubMeridiemDots(From(s, n + 1), letter)
            ELSE <<s[1]>> \o SubMeridiemDots(Tail(s), letter)

\* \b(\d{1,2})(\s*a)\b at index i: <<digits matched, whitespace matched>>,
\* <<0, 0>> if none
BareLetterMatch(s, i, letter) ==
    LET d == Digits12(s, i)
        w == CHOOSE k \in 0..Len(s) :
                 /\ ~IsSpace(At(s, i + d + k))
                 /\ \A j \in 0..(k - 1) : IsSpace(At(s, i + d + j))
    IN IF /\ d > 0
          /\ ~IsWord(At(s, i - 1))
          /\ At(s, i + d + w) = letter
          /\ ~IsWord(At(s, i + d + w + 1))
       THEN <<d, w>>
       ELSE <<0, 0>>

\* re.sub(r"\b(\d{1,2})(\s*a)\b", r"\1am", s), scanning from index i
RECURSIVE SubBareLetter(_, _, _)
SubBareLetter(s, i, letter) ==
    IF i > Len(s) THEN <<>>
    ELSE LET m == BareLetterMatch(s, i, letter)
         IN IF m[1] > 0
            THEN SubSeq(s, i, i + m[1] - 1) \o <<letter, "m">>
                 \o SubBareLetter(s, i + m[1] + m[2] + 1, letter)
            ELSE <<s[i]>> \o SubBareLetter(s, i + 1, letter)

\* (\d{1,2}:\d{2}(am|pm))(\d{1,2}(am|pm)) at the start of s:
\* <<length of group 1, length of group 3>>, <<0, 0>> if none
MinutesThenBareMatch(s) ==
    LET d1 == Digits12(s, 1)
        j == d1 + 6
        d2 == Digits12(s, j)
    IN IF /\ d1 > 0
          /\ At(s, d1 + 1) = ":"
          /\ IsDigit(At(s, d1 + 2)) /\ IsDigit(At(s, d1 + 3))
          /\ IsMeridiem(s, d1 + 4)
          /\ d2 > 0
          /\ IsMeridiem(s, j + d2)
       THEN <<d1 + 5, d2 + 2>>
       ELSE <<0, 0>>

\* (\d{2}(am|pm))(\d{1,2}:\d{2}(am|pm)) at the start of s, likewise
BareThenMinutesMatch(s) ==
    LET d == Digits12(s, 5)
    IN IF /\ IsDigit(At(s, 1)) /\ IsDigit(At(s, 2))
          /\ IsMeridiem(s, 3)
          /\ d > 0
          /\ At(s, 5 + d) = ":"
          /\ IsDigit(At(s, 6 + d)) /\ IsDigit(At(s, 7 + d))
          /\ IsMeridiem(s, 8 + d)
       THEN <<4, d + 5>>
       ELSE <<0, 0>>

\* re.sub(pattern, r"\1-\3", s) for the two patterns above, named by the
\* line of cleanse_time_range that applies them
InsertDashMatch(s, line) ==
    IF line = 114 THEN MinutesThenBareMatch(s) ELSE BareThenMinutesMatch(s)

RECURSIVE SubInsertDash(_, _)
SubInsertDash(s, line) ==
    IF s = <<>> THEN <<>>
    ELSE LET m == InsertDashMatch(s, line)
         IN IF m[1] > 0
            THEN SubSeq(s, 1, m[1]) \o <<"-">> \o SubSeq(s, m[1] + 1, m[1] + m[2])
                 \o SubInsertDash(From(s, m[1] + m[2] + 1), line)
            ELSE <<s[1]>> \o SubInsertDash(Tail(s), line)

\* re.sub(r"--+", "-", s)
RECURSIVE CollapseDashes(_)
CollapseDashes(s) ==
    IF s = <<>> THEN <<>>
    ELSE IF At(s, 1) = "-" /\ At(s, 2) = "-" THEN CollapseDashes(Tail(s))
    ELSE <<s[1]>> \o CollapseDashes(Tail(s))

\* Lines 101-118 of cleanse_time_range: the general normalization
Normalize(time_range) ==
    LET s1 == SelectSeq(time_range, LAMBDA c : c # "u202f")
        s2 == SelectSeq(s1, LAMBDA c : c # " ")
        s3 == StripPrefix(s2)
        s4 == SubMeridiemDots(s3, "a")
        s5 == SubMeridiemDots(s4, "p")
        s6 == SubBareLetter(s5, 1, "a")
        s7 == SubBareLetter(s6, 1, "p")
        s8 == normalize_dashes(s7)
        s9 == replace(s8, <<"t", "o">>, <<"-">>)
        s10 == SubInsertDash(s9, 114)
        s11 == SubClass(s10, {"\n", ",", ";"}, "-")
        s12 == CollapseDashes(s11)
    IN SubInsertDash(s12, 118)

\* (mutant) line 139 with `or` for `and`: a pair is kept when one side converts
ConvertPair_either_side(start_time, end_time) ==
    LET inferred == infer_missing_am_pm(start_time, end_time)
        start_time_24 == convert_to_24h(fix_irregular_time_format(inferred[1]))
        end_time_24 == convert_to_24h(fix_irregular_time_format(inferred[2]))
    IN IF start_time_24 # None \/ end_time_24 # None
       THEN <<<<start_time_24, end_time_24>>>>
       ELSE <<>>

\* (mutant) lines 133-134 before line 132: the irregular format fixed before
\* the missing marker is inferred
ConvertPair_fix_before_inference(start_time, end_time) ==
    LET inferred == infer_missing_am_pm(fix_irregular_time_format(start_time),
                                        fix_irregular_time_format(end_time))
        start_time_24 == convert_to_24h(inferred[1])
        end_time_24 == convert_to_24h(inferred[2])
    IN IF start_time_24 # None /\ end_time_24 # None
       THEN <<<<start_time_24, end_time_24>>>>
       ELSE <<>>

\* Lines 132-140: one pair of non-empty tokens, <<>> when it is dropped
ConvertPair(start_time, end_time) ==
    LET inferred == infer_missing_am_pm(start_time, end_time)
        start_time_24 == convert_to_24h(fix_irregular_time_format(inferred[1]))
        end_time_24 == convert_to_24h(fix_irregular_time_format(inferred[2]))
    IN IF start_time_24 # None /\ end_time_24 # None
       THEN <<<<start_time_24, end_time_24>>>>
       ELSE <<>>

\* Lines 124-144: the loop over the pairs, i counted from 1. The result is
\* the list returned and the line of the return statement that returned it.
\* Nothing in the loop body raises (convert_to_24h catches its ValueError),
\* so the except clause of line 141 has no path to it.
RECURSIVE PairLoop(_, _, _)

\* (mutant) line 130 as `continue`: a pair with an empty token is skipped
PairLoop_skip_empty(multiple_ranges, i, times) ==
    IF i > Len(multiple_ranges)
    THEN [times |-> IF times # <<>> THEN times ELSE <<CLOSED_PAIR>>, line |-> 144]
    ELSE LET start_time == multiple_ranges[i]
             end_time == IF i + 1 <= Len(multiple_ranges)
                         THEN multiple_ranges[i + 1] ELSE None
         IN IF start_time = <<>> \/ end_time = <<>>
            THEN PairLoop(multiple_ranges, i + 2, times)
            ELSE PairLoop(multiple_ranges, i + 2,
                          times \o ConvertPair(start_time, end_time))

\* (mutant) a pair that fails to convert returns the fallback of line 142
PairLoop_reset_on_failure(multiple_ranges, i, times) ==
    IF i > Len(multiple_ranges)
    THEN [times |-> IF times # <<>> THEN times ELSE <<CLOSED_PAIR>>, line |-> 144]
    ELSE LET start_time == multiple_ranges[i]
             end_time == IF i + 1 <= Len(multiple_ranges)
                         THEN multiple_ranges[i + 1] ELSE None
         IN IF start_time = <<>> \/ end_time = <<>>
            THEN [times |-> <<CLOSED_PAIR>>, line |-> 130]
            ELSE IF ConvertPair(start_time, end_time) = <<>>
            THEN [times |-> <<CLOSED_PAIR>>, line |-> 142]
            ELSE PairLoop(multiple_ranges, i + 2,
                          times \o ConvertPair(start_time, end_time))

PairLoop(multiple_ranges, i, times) ==
    IF i > Len(multiple_ranges)
    THEN [times |-> IF times # <<>> THEN times ELSE <<CLOSED_PAIR>>, line |-> 144]
    ELSE LET start_time == multiple_ranges[i]
             end_time == IF i + 1 <= Len(multiple_ranges)
                         THEN multiple_ranges[i + 1] ELSE None
         IN IF start_time = <<>> \/ end_time = <<>>
            THEN [times |-> <<CLOSED_PAIR>>, line |-> 130]
            ELSE PairLoop(multiple_ranges, i + 2,
                          times \o ConvertPair(start_time, end_time))

\* A cell of the DataFrame: NaN/None (isna) or a str
IsBlank(cell) == cell.isna \/ strip(cell.str) = <<>>

\* The words of lines 95 and 98
HOURS_24 == <<"2", "4", " ", "h", "o", "u", "r", "s">>

CLOSED_WORD == <<"c", "l", "o", "s", "e", "d">>

\* (mutant) the two membership tests in the other order
SentinelLine_closed_first(time_range) ==
    IF Contains(time_range, CLOSED_WORD) THEN 99
    ELSE IF Contains(time_range, HOURS_24) THEN 96
    ELSE 0

\* Lines 95-99: the return statement a sentinel phrase leads to, 0 if none
SentinelLine(time_range) ==
    IF Contains(time_range, HOURS_24) THEN 96
    ELSE IF Contains(time_range, CLOSED_WORD) THEN 99
    ELSE 0

cleanse_time_range(cell) ==
    IF IsBlank(cell) THEN [times |-> <<CLOSED_PAIR>>, line |-> 91]
    ELSE LET time_range == lower(strip(cell.str))
         IN IF SentinelLine(time_range) = 96
            THEN [times |-> <<OPEN_24H_PAIR>>, line |-> 96]
            ELSE IF SentinelLine(time_range) = 99
            THEN [times |-> <<CLOSED_PAIR>>, line |-> 99]
            ELSE PairLoop(split(Normalize(time_range), "-"), 1, <<>>)

\* (mutant) the second shift taken from the last pair, x[-1]
ShiftColumns_last_pair(x) ==
    [start_time_shift1 |-> IF Len(x) > 0 THEN x[1][1] ELSE CLOSED,
     end_time_shift1   |-> IF Len(x) > 0 THEN x[1][2] ELSE CLOSED,
     start_time_shift2 |-> IF Len(x) > 0 THEN x[Len(x)][1] ELSE CLOSED,
     end_time_shift2   |-> IF Len(x) > 0 THEN x[Len(x)][2] ELSE CLOSED]

\* The four columns assign_time_shifts writes for a day, from the list x
\* that cleanse_time_range returned for the cell
ShiftColumns(x) ==
    [start_time_shift1 |-> IF Len(x) > 0 THEN x[1][1] ELSE CLOSED,
     end_time_shift1   |-> IF Len(x) > 0 THEN x[1][2] ELSE CLOSED,
     start_time_shift2 |-> IF Len(x) > 1 THEN x[2][1] ELSE CLOSED,
     end_time_shift2   |-> IF Len(x) > 1 THEN x[2][2] ELSE CLOSED]

\* ------------------------------------------------------------------------
\* The cells the normalizer is run on
\* ------------------------------------------------------------------------

\* The most fragments a generated cell is made of
MaxFrags == 3

\* Pieces of opening-hours text; a generated cell is a concatenation of them
Fragments == <<
    <<"9">>,
    <<"9", "a", "m">>,
    <<"5", "p", "m">>,
    <<"-">>,
    <<",">>,
    <<" ">>,
    <<"c", "l", "o", "s", "e", "d">>,
    <<"C", "l", "o", "s", "e", "d">>,
    <<"2", "4", " ", "h", "o", "u", "r", "s">>,
    <<"2", "4", " ", "H", "o", "u", "r", "s">>,
    <<"1", "3", "p", "m">>,
    <<"9", "a", "m", "-", "1", "2", "p", "m">>,
    <<",", "1", "p", "m", "-", "5", "p", "m">>,
    <<",", "6", "p", "m", "-", "9", "p", "m">>,
    <<"6", "0", "0">>,
    <<"p", "m">>,
    <<"-", "9", "0", "0", "p", "m">> >>

RECURSIVE Concats(_)
Concats(n) ==
    IF n = 0 THEN {<<>>}
    ELSE LET shorter == Concats(n - 1)
         IN shorter \cup {p \o Fragments[k] : p \in shorter, k \in DOMAIN Fragments}

\* Whole cells in the styles the normalizer is written for
Samples == {
    <<"S", "u", "n", ":", " ", "9", " ", "a", ".", "m", ".", " ", "u2013", " ", "5", " ", "p", ".", "m", ".">>,
    <<"9", "a", " ", "t", "o", " ", "5", "p">>,
    <<"9", ":", "0", "0", "a", "m", "1", "2", "p", "m">>,
    <<"1", "0", "a", "m", "1", ":", "3", "0", "p", "m">>,
    <<"9", ".", "3", "0", "a", "m", "-", "5", ".", "3", "0", "p", "m">>,
    <<"9", ":", "0", "0", "a", "m", "-", "1", "2", ":", "0", "0", "p", "m", ",", " ",
      "1", ":", "0", "0", "p", "m", "-", "5", ":", "0", "0", "p", "m">>,
    <<"9", "a", "m", "u202f", "-", "-", "5", "p", "m", ";", "\n", "6", "p", "m", "u2014", "8", "p", "m">>,
    <<"\t", " ">> }

\* Canonical times HH:MM
Canon(hour, minute) == strftime_HM(hour, minute)

AllCanon == {Canon(h, m) : h \in 0..23, m \in 0..59}

FewCanon == {Canon(0, 0), Canon(9, 5), Canon(12, 30), Canon(23, 59)}

\* Canonical ranges a-b: every time on either side
CanonRanges ==
    {a \o <<"-">> \o b : a \in AllCanon, b \in FewCanon}
    \cup {a \o <<"-">> \o b : a \in FewCanon, b \in AllCanon}

NaN == [isna |-> TRUE, str |-> <<>>]

Str(s) == [isna |-> FALSE, str |-> s]

Cells == {NaN} \cup {Str(s) : s \in Concats(MaxFrags) \cup Samples \cup CanonRanges}

\* ------------------------------------------------------------------------
\* The persisted records and the values the queries are run with
\* ------------------------------------------------------------------------

\* The most rows the hours table and the category table are filled with
MaxHoursRows == 2

MaxCategoryRows == 1

BusinessIds == {1, 2}

\* The days of the rows inserted, and the days the clock may show
StoredDays == {"Monday", "Tuesday"}

ClockDays == {"Monday", "Tuesday"}

HHMM(h1, h2, m1, m2) == <<h1, h2, ":", m1, m2>>

\* The four shift fields of the rows inserted: a closed day, two shifts, and
\* an open-24h day whose second shift is left at the defaults of
\* insert_business_hours (None)
ShiftFields == {
    <<CLOSED, CLOSED, CLOSED, CLOSED>>,
    <<HHMM("0", "9", "0", "0"), HHMM("1", "2", "0", "0"),
      HHMM("1", "3", "0", "0"), HHMM("1", "7", "0", "0")>>,
    <<CLOSED, HHMM("2", "3", "5", "9"), None, None>> }

ClockTimes == {CLOSED, HHMM("0", "8", "5", "9"), HHMM("0", "9", "0", "0"),
               HHMM("1", "2", "0", "0"), HHMM("1", "2", "0", "1"),
               HHMM("1", "3", "0", "0")}

CategoryLists == {<<"Food">>, <<"Food", "Bar">>}

CategoryNames == {"Food", "Bar"}

\* The day_of_week arguments of the by-day query
DayArguments == {
    <<"m", "o", "n", "d", "a", "y">>,
    <<"T", "U", "E", "S", "D", "A", "Y">>,
    <<"m", "o", "n">> }

\* ------------------------------------------------------------------------
\* State
\* ------------------------------------------------------------------------

\* ------------------------------------------------------------------------
\* The DataFrame the database is filled from
\* ------------------------------------------------------------------------

\* The most rows of the DataFrame
MaxRows == 2

\* constants.py: the names of the day columns, in the order of the week
DAYS_OF_WEEK == <<"Monday", "Tuesday", "Wednesday", "Thursday", "Friday",
                  "Saturday", "Sunday">>

\* The day columns of two rows of the CSV
RawWeeks == {
    [d \in Range(DAYS_OF_WEEK) |->
        CASE d \in {"Monday", "Tuesday"} -> Str(<<"9", "a", "m", "-", "5", "p", "m">>)
          [] d = "Wednesday" -> Str(<<"9", "a", "m", "-", "1", "2", "p", "m", ",",
                                      "1", "p", "m", "-", "5", "p", "m">>)
          [] d = "Thursday" -> Str(<<"1", "0", "a", "m", "-", "6", "p", "m">>)
          [] d = "Friday" -> Str(<<"1", "0", "a", "m", "-", "1", "1", "p", "m">>)
          [] d = "Saturday" -> Str(<<"C", "l", "o", "s", "e", "d">>)
          [] OTHER -> NaN],
    [d \in Range(DAYS_OF_WEEK) |->
        CASE d = "Monday" -> Str(<<"2", "4", " ", "h", "o", "u", "r", "s">>)
          [] d = "Tuesday" -> Str(<<"c", "l", "o", "s", "e", "d">>)
          [] d = "Wednesday" -> Str(<<"8", "a", "m", "-", "1", "1", "a", "m">>)
          [] d = "Thursday" -> Str(<<"6", "0", "0", "p", "m", "-", "9", "0", "0", "p", "m">>)
          [] d = "Friday" -> NaN
          [] d = "Saturday" -> Str(<<"1", "1", "a", "m", "-", "2", "p", "m", ",",
                                     "5", "p", "m", "-", "1", "0", "p", "m">>)
          [] OTHER -> Str(<<"1", "2", "p", "m", "-", "4", "p", "m">>)] }

\* format_timeranges: the four shift columns of every day of a row
format_timeranges(week) ==
    [d \in Range(DAYS_OF_WEEK) |-> ShiftColumns(cleanse_time_range(week[d]).times)]

\* The categories_split column: a list, or a value that is not one
CategoriesSplit ==
    {[islist |-> TRUE, items |-> c] : c \in CategoryLists}
    \cup {[islist |-> FALSE, items |-> <<>>]}

Rows == [ID : BusinessIds,
         hours : {format_timeranges(week) : week \in RawWeeks},
         categories_split : CategoriesSplit]

DataFrames == UNION {[1..n -> Rows] : n \in 0..MaxRows}

VARIABLES
    cell,           \* df[day] of the row: the raw opening-hours text of one day
    pc,             \* "raw": not yet processed; "assigned": assign_time_shifts ran
    time_ranges,    \* what cleanse_time_range returned for the cell
    shifts,         \* the four shift columns of the day
    Business,       \* the business table: the ids of its rows
    BusinessHours,  \* the hours table: its rows in the order of their ids
    Category,       \* the category table: its rows in the order of their ids
    serving,        \* the startup event is over and the API answers
    request,        \* the last query, with the local time it ran at
    response,       \* what it answered
    df,             \* the DataFrame fill_db_from_df is given: its rows
    index,          \* fill_db_from_df: the row its loop is at (from 1)
    day_index,      \* fill_db_from_df: the place in DAYS_OF_WEEK of its inner loop
    fill_pc,        \* fill_db_from_df: the call it makes next
    writes          \* the calls the repository has received, in their order

normalizer_vars == <<cell, pc, time_ranges, shifts>>

db_vars == <<Business, BusinessHours, Category>>

query_vars == <<serving, request, response>>

fill_vars == <<df, index, day_index, fill_pc, writes>>

vars == <<cell, pc, time_ranges, shifts, Business, BusinessHours, Category,
          serving, request, response, df, index, day_index, fill_pc, writes>>

NoColumns == [start_time_shift1 |-> None, end_time_shift1 |-> None,
              start_time_shift2 |-> None, end_time_shift2 |-> None]

NoRequest == [kind |-> "none", arg |-> <<>>, day |-> "", time |-> <<>>]

NoResponse == [status |-> 0, businesses |-> {}, ids |-> {}]

EmptyDatabase ==
    /\ Business = {}
    /\ BusinessHours = <<>>
    /\ Category = <<>>
    /\ serving = FALSE
    /\ request = NoRequest
    /\ response = NoResponse

\* fill_db_from_df is not running
NotFilling ==
    /\ df = <<>>
    /\ index = 1
    /\ day_index = 1
    /\ fill_pc = "idle"
    /\ writes = <<>>

Init ==
    /\ cell \in Cells
    /\ pc = "raw"
    /\ time_ranges = [times |-> <<>>, line |-> 0]
    /\ shifts = NoColumns
    /\ EmptyDatabase
    /\ NotFilling

\* assign_time_shifts(df, day), for one row
assign_time_shifts ==
    /\ pc = "raw"
    /\ time_ranges' = cleanse_time_range(cell)
    /\ shifts' = ShiftColumns(time_ranges'.times)
    /\ pc' = "assigned"
    /\ UNCHANGED <<cell, db_vars, query_vars, fill_vars>>

Next == assign_time_shifts

Spec == Init /\ [][Next]_vars

\* ------------------------------------------------------------------------
\* db/repository.py: the writes
\* ------------------------------------------------------------------------

\* Business.create raises on an id already there, and nothing is written
insert_business(business_id) ==
    /\ ~serving
    /\ business_id \notin Business
    /\ Business' = Business \cup {business_id}
    /\ UNCHANGED <<fill_vars, normalizer_vars, BusinessHours, Category, query_vars>>

\* Business.get raises DoesNotExist for an unknown id, and nothing is written
insert_business_hours(business_id, day, shift1_start, shift1_end, shift2_start, shift2_end) ==
    /\ ~serving
    /\ business_id \in Business
    /\ Len(BusinessHours) < MaxHoursRows
    /\ BusinessHours' = Append(BusinessHours,
           [business |-> business_id, day |-> day,
            shift1_start |-> shift1_start, shift1_end |-> shift1_end,
            shift2_start |-> shift2_start, shift2_end |-> shift2_end])
    /\ UNCHANGED <<fill_vars, normalizer_vars, Business, Category, query_vars>>

insert_categories(business_id, categories) ==
    /\ ~serving
    /\ business_id \in Business
    /\ Len(Category) + Len(categories) <= MaxCategoryRows
    /\ Category' = Category \o [k \in 1..Len(categories) |->
                                   [business |-> business_id, category |-> categories[k]]]
    /\ UNCHANGED <<fill_vars, normalizer_vars, Business, BusinessHours, query_vars>>

\* main.py: startup_event returns, and only then are requests served
startup_complete ==
    /\ ~serving
    /\ serving' = TRUE
    /\ UNCHANGED <<fill_vars, normalizer_vars, db_vars, request, response>>

\* ------------------------------------------------------------------------
\* crud.py: the queries
\* ------------------------------------------------------------------------

\* The order of the characters of a time string
CharCode(c) == IF c = ":" THEN 10 ELSE DigitVal(c)

\* a <= b of two strings, character by character
StrLe(a, b) ==
    \/ \E i \in 1..Len(a) :
           /\ i <= Len(b)
           /\ \A j \in 1..(i - 1) : a[j] = b[j]
           /\ CharCode(a[i]) < CharCode(b[i])
    \/ /\ Len(a) <= Len(b)
       /\ \A j \in 1..Len(a) : a[j] = b[j]

\* column__lte=value and column__gte=value: a comparison with NULL is not true
Lte(column, value) == column # None /\ StrLe(column, value)

Gte(column, value) == column # None /\ StrLe(value, column)

HoursOf(business_id) ==
    {BusinessHours[i] : i \in {j \in DOMAIN BusinessHours :
                                  BusinessHours[j].business = business_id}}

\* (mutant) any(...) for all(...)
is_closed_any(hours) ==
    \E hour \in hours :
        /\ hour.shift1_start = CLOSED /\ hour.shift1_end = CLOSED
        /\ hour.shift2_start = CLOSED /\ hour.shift2_end = CLOSED

\* is_closed, over the prefetched hours of a business
is_closed(hours) ==
    \A hour \in hours :
        /\ hour.shift1_start = CLOSED /\ hour.shift1_end = CLOSED
        /\ hour.shift2_start = CLOSED /\ hour.shift2_end = CLOSED

\* The loop that builds the response from the businesses the filter matched,
\* or the HTTPException for none
Respond(businesses) ==
    IF businesses = {} THEN [status |-> 404, businesses |-> {}, ids |-> {}]
    ELSE [status |-> 200, businesses |-> businesses,
          ids |-> {b \in businesses : ~is_closed(HoursOf(b))}]

\* Business.filter(categories__category=category_name)
FilterCategory(category_name) ==
    {b \in Business : \E i \in DOMAIN Category :
        Category[i].business = b /\ Category[i].category = category_name}

get_businesses_by_category(category_name) ==
    /\ serving
    /\ request' = [kind |-> "category", arg |-> <<category_name>>, day |-> "", time |-> <<>>]
    /\ response' = Respond(FilterCategory(category_name))
    /\ UNCHANGED <<fill_vars, normalizer_vars, db_vars, serving>>

days_map == {
    <<<<"m", "o", "n", "d", "a", "y">>, "Monday">>,
    <<<<"t", "u", "e", "s", "d", "a", "y">>, "Tuesday">>,
    <<<<"w", "e", "d", "n", "e", "s", "d", "a", "y">>, "Wednesday">>,
    <<<<"t", "h", "u", "r", "s", "d", "a", "y">>, "Thursday">>,
    <<<<"f", "r", "i", "d", "a", "y">>, "Friday">>,
    <<<<"s", "a", "t", "u", "r", "d", "a", "y">>, "Saturday">>,
    <<<<"s", "u", "n", "d", "a", "y">>, "Sunday">> }

\* days_map.get(key), "" for None
days_map_get(key) ==
    IF \E e \in days_map : e[1] = key
    THEN (CHOOSE e \in days_map : e[1] = key)[2]
    ELSE ""

\* Business.filter(hours__day=day)
FilterDay(day) ==
    {b \in Business : \E hour \in HoursOf(b) : hour.day = day}

get_businesses_by_day(day_of_week) ==
    /\ serving
    /\ request' = [kind |-> "day", arg |-> day_of_week, day |-> "", time |-> <<>>]
    /\ response' = IF days_map_get(lower(day_of_week)) = ""
                   THEN [status |-> 400, businesses |-> {}, ids |-> {}]
                   ELSE Respond(FilterDay(days_map_get(lower(day_of_week))))
    /\ UNCHANGED <<fill_vars, normalizer_vars, db_vars, serving>>

\* (mutant) | binding the day to the first shift only:
\* (Q(day) & Q(shift1 ...)) | Q(shift2 ...)
FilterOpenNow_day_with_shift1(current_day, current_time) ==
    {b \in Business : \E hour \in HoursOf(b) :
        \/ /\ hour.day = current_day
           /\ Lte(hour.shift1_start, current_time)
           /\ Gte(hour.shift1_end, current_time)
        \/ /\ Lte(hour.shift2_start, current_time)
           /\ Gte(hour.shift2_end, current_time)}

\* Business.filter(Q(hours__day=current_day) & (Q(shift1 ...) | Q(shift2 ...))):
\* one row of the joined hours table satisfies the whole expression
FilterOpenNow(current_day, current_time) ==
    {b \in Business : \E hour \in HoursOf(b) :
        /\ hour.day = current_day
        /\ \/ /\ Lte(hour.shift1_start, current_time)
              /\ Gte(hour.shift1_end, current_time)
           \/ /\ Lte(hour.shift2_start, current_time)
              /\ Gte(hour.shift2_end, current_time)}

\* current_day and current_time are datetime.now() as "%A" and "%H:%M"
get_businesses_open_now(current_day, current_time) ==
    /\ serving
    /\ request' = [kind |-> "open_now", arg |-> <<>>, day |-> current_day, time |-> current_time]
    /\ response' = Respond(FilterOpenNow(current_day, current_time))
    /\ UNCHANGED <<fill_vars, normalizer_vars, db_vars, serving>>

InitQuery ==
    /\ cell = NaN
    /\ pc = "raw"
    /\ time_ranges = [times |-> <<>>, line |-> 0]
    /\ shifts = NoColumns
    /\ EmptyDatabase
    /\ NotFilling

NextQuery ==
    \/ \E business_id \in BusinessIds : insert_business(business_id)
    \/ \E business_id \in BusinessIds, day \in StoredDays, f \in ShiftFields :
           insert_business_hours(business_id, day, f[1], f[2], f[3], f[4])
    \/ \E business_id \in BusinessIds, categories \in CategoryLists :
           insert_categories(business_id, categories)
    \/ startup_complete
    \/ \E category_name \in CategoryNames : get_businesses_by_category(category_name)
    \/ \E day_of_week \in DayArguments : get_businesses_by_day(day_of_week)
    \/ \E current_day \in ClockDays, current_time \in ClockTimes :
           get_businesses_open_now(current_day, current_time)

SpecQuery == InitQuery /\ [][NextQuery]_vars

\* ------------------------------------------------------------------------
\* db/repository.py: fill_db_from_df
\* ------------------------------------------------------------------------

\* A call the repository receives from the loop at row `row`
Call(call, row, args) == [call |-> call, row |-> row, args |-> args]

\* The loop takes the next row and awaits repo.insert_business. Business.create
\* raises on an id already there: nothing is written and the exception leaves
\* fill_db_from_df.
fill_db_from_df_business ==
    /\ fill_pc = "insert_business"
    /\ index <= Len(df)
    /\ LET row == df[index]
       IN /\ writes' = Append(writes, Call("insert_business", index, <<row.ID>>))
          /\ IF row.ID \in Business
             THEN /\ fill_pc' = "raised"
                  /\ UNCHANGED Business
             ELSE /\ fill_pc' = "insert_business_hours"
                  /\ Business' = Business \cup {row.ID}
    /\ day_index' = 1
    /\ UNCHANGED <<normalizer_vars, BusinessHours, Category, query_vars, df, index>>

\* (mutant) the categories block indented into the loop over the days:
\* insert_categories follows the insert_business_hours of every day
fill_db_from_df_hours_categories_in_loop ==
    /\ fill_pc = "insert_business_hours"
    /\ LET row == df[index]
           d == DAYS_OF_WEEK[day_index]
           categories == IF row.categories_split.islist
                         THEN row.categories_split.items ELSE <<>>
       IN /\ writes' = writes \o
                 <<Call("insert_business_hours", index,
                        <<row.ID, d, row.hours[d].start_time_shift1, row.hours[d].end_time_shift1,
                          row.hours[d].start_time_shift2, row.hours[d].end_time_shift2>>),
                   Call("insert_categories", index, <<row.ID, categories>>)>>
          /\ BusinessHours' = Append(BusinessHours,
                 [business |-> row.ID, day |-> d,
                  shift1_start |-> row.hours[d].start_time_shift1,
                  shift1_end |-> row.hours[d].end_time_shift1,
                  shift2_start |-> row.hours[d].start_time_shift2,
                  shift2_end |-> row.hours[d].end_time_shift2])
          /\ Category' = Category \o [k \in 1..Len(categories) |->
                 [business |-> row.ID, category |-> categories[k]]]
    /\ day_index' = day_index + 1
    /\ index' = IF day_index = Len(DAYS_OF_WEEK) THEN index + 1 ELSE index
    /\ fill_pc' = IF day_index = Len(DAYS_OF_WEEK) THEN "insert_business"
                  ELSE "insert_business_hours"
    /\ UNCHANGED <<normalizer_vars, Business, query_vars, df>>

\* One turn of `for day in DAYS_OF_WEEK`: await repo.insert_business_hours
\* with the id insert_business returned (the row's ID) and the four columns
\* of the day. Business.get raises DoesNotExist for an unknown id.
fill_db_from_df_hours ==
    /\ fill_pc = "insert_business_hours"
    /\ LET row == df[index]
           d == DAYS_OF_WEEK[day_index]
       IN /\ writes' = Append(writes, Call("insert_business_hours", index,
                 <<row.ID, d, row.hours[d].start_time_shift1, row.hours[d].end_time_shift1,
                   row.hours[d].start_time_shift2, row.hours[d].end_time_shift2>>))
          /\ IF row.ID \notin Business
             THEN /\ fill_pc' = "raised"
                  /\ UNCHANGED <<BusinessHours, day_index>>
             ELSE /\ BusinessHours' = Append(BusinessHours,
                         [business |-> row.ID, day |-> d,
                          shift1_start |-> row.hours[d].start_time_shift1,
                          shift1_end |-> row.hours[d].end_time_shift1,
                          shift2_start |-> row.hours[d].start_time_shift2,
                          shift2_end |-> row.hours[d].end_time_shift2])
                  /\ day_index' = day_index + 1
                  /\ fill_pc' = IF day_index = Len(DAYS_OF_WEEK) THEN "insert_categories"
                                ELSE "insert_business_hours"
    /\ UNCHANGED <<normalizer_vars, Business, Category, query_vars, df, index>>

\* categories is the list of the row, [] for a value that is not a list;
\* await repo.insert_categories, and the loop goes to the next row
fill_db_from_df_categories ==
    /\ fill_pc = "insert_categories"
    /\ LET row == df[index]
           categories == IF row.categories_split.islist
                         THEN row.categories_split.items ELSE <<>>
       IN /\ writes' = Append(writes, Call("insert_categories", index,
                                           <<row.ID, categories>>))
          /\ IF row.ID \notin Business
             THEN /\ fill_pc' = "raised"
                  /\ UNCHANGED <<Category, index>>
             ELSE /\ Category' = Category \o [k \in 1..Len(categories) |->
                         [business |-> row.ID, category |-> categories[k]]]
                  /\ index' = index + 1
                  /\ fill_pc' = "insert_business"
    /\ UNCHANGED <<normalizer_vars, Business, BusinessHours, query_vars, df, day_index>>

\* The DataFrame has no more rows: fill_db_from_df returns
fill_db_from_df_return ==
    /\ fill_pc = "insert_business"
    /\ index > Len(df)
    /\ fill_pc' = "done"
    /\ UNCHANGED <<normalizer_vars, db_vars, query_vars, df, index, day_index, writes>>

InitFill ==
    /\ cell = NaN
    /\ pc = "raw"
    /\ time_ranges = [times |-> <<>>, line |-> 0]
    /\ shifts = NoColumns
    /\ EmptyDatabase
    /\ df \in DataFrames
    /\ index = 1
    /\ day_index = 1
    /\ fill_pc = "insert_business"
    /\ writes = <<>>

NextFill ==
    \/ fill_db_from_df_business
    \/ fill_db_from_df_hours
    \/ fill_db_from_df_categories
    \/ fill_db_from_df_return

SpecFill == InitFill /\ [][NextFill]_vars

\* ------------------------------------------------------------------------
\* Properties of the normalizer and the shift assigner
\* ------------------------------------------------------------------------

\* A zero-padded 24-hour HH:MM string
IsHHMM(t) ==
    /\ Len(t) = 5
    /\ IsDigit(t[1]) /\ IsDigit(t[2]) /\ t[3] = ":" /\ IsDigit(t[4]) /\ IsDigit(t[5])
    /\ 10 * DigitVal(t[1]) + DigitVal(t[2]) <= 23
    /\ 10 * DigitVal(t[4]) + DigitVal(t[5]) <= 59

Assigned == pc = "assigned"

\* The cell is a str that holds the (lower-case) phrase, whatever the case of
\* the letters in the cell
CellContains(phrase) ==
    /\ ~cell.isna
    /\ \E i \in 1..Len(cell.str) :
           /\ i + Len(phrase) - 1 <= Len(cell.str)
           /\ \A k \in 1..Len(phrase) : LowerChar(cell.str[i + k - 1]) = phrase[k]

\* The cell reached the general normalization: it is neither blank nor holds
\* a sentinel phrase
Normalized == ~IsBlank(cell) /\ ~CellContains(HOURS_24) /\ ~CellContains(CLOSED_WORD)

\* The tokens the normalized string splits into on '-'
Tokens == split(Normalize(lower(strip(cell.str))), "-")

ReturnLines == {91, 96, 99, 130, 144}

\* C1: for a null/NaN cell and for any string, cleanse_time_range returns (by
\* one of its return statements outside the except clause) a non-empty list of
\* pairs, both elements of every pair a zero-padded 24-hour HH:MM string.
C1_AlwaysWellFormedPairs ==
    Assigned =>
        /\ time_ranges.line \in ReturnLines
        /\ Len(time_ranges.times) > 0
        /\ \A i \in DOMAIN time_ranges.times :
               /\ Len(time_ranges.times[i]) = 2
               /\ IsHHMM(time_ranges.times[i][1])
               /\ IsHHMM(time_ranges.times[i][2])

\* C1 witness: a cell whose first pair converts and whose second pair has an
\* unparseable side; the list returned is the first pair alone
C1_Witness ==
    /\ Assigned
    /\ Normalized
    /\ Len(Tokens) = 4
    /\ convert_to_24h(Tokens[3]) # None
    /\ convert_to_24h(Tokens[4]) = None
    /\ Len(time_ranges.times) = 1
    /\ time_ranges.times # <<CLOSED_PAIR>>

\* C2 as stated: every cell that holds "closed" (case-insensitive) yields
\* exactly [["00:00","00:00"]].
C2_ClosedAlwaysWins ==
    (Assigned /\ CellContains(CLOSED_WORD)) => time_ranges.times = <<CLOSED_PAIR>>

\* C2 amended: every cell that holds "closed" (case-insensitive) and does not
\* hold "24 hours" (case-insensitive) yields exactly [["00:00","00:00"]]; one
\* that holds both yields [["00:00","23:59"]].
C2_ClosedUnless24Hours ==
    (Assigned /\ CellContains(CLOSED_WORD)) =>
        time_ranges.times = IF CellContains(HOURS_24) THEN <<OPEN_24H_PAIR>>
                            ELSE <<CLOSED_PAIR>>

\* C2 witness: a cell that holds "Closed", capitalised, after a range that
\* would parse to something else on its own
C2_Witness ==
    /\ Assigned
    /\ Contains(cell.str, <<"C", "l", "o", "s", "e", "d">>)
    /\ Contains(cell.str, <<"9", "a", "m", "-", "1", "2", "p", "m">>)
    /\ ~CellContains(HOURS_24)
    /\ time_ranges = [times |-> <<CLOSED_PAIR>>, line |-> 99]

\* C3: every cell that holds "24 hours" (case-insensitive) yields exactly
\* [["00:00","23:59"]], returned at line 96, before the general normalization.
C3_24HoursAlwaysWins ==
    (Assigned /\ CellContains(HOURS_24)) =>
        time_ranges = [times |-> <<OPEN_24H_PAIR>>, line |-> 96]

\* C3 witness: a cell that holds both "24 Hours" and "closed"
C3_Witness ==
    /\ Assigned
    /\ Contains(cell.str, <<"2", "4", " ", "H", "o", "u", "r", "s">>)
    /\ CellContains(CLOSED_WORD)
    /\ time_ranges.times = <<OPEN_24H_PAIR>>

\* C4 as stated: "9-5pm" yields [["09:00","17:00"]].
C4_NineToFivePm ==
    (Assigned /\ cell = Str(<<"9", "-", "5", "p", "m">>)) =>
        time_ranges.times = <<<<Canon(9, 0), Canon(17, 0)>>>>

\* C5: when the tokens are odd in number or one of them is empty, the whole
\* cell yields exactly [["00:00","00:00"]], returned at line 130, whatever
\* pairs were parsed before.
C5_EmptyTokenResetsAll ==
    (/\ Assigned
     /\ Normalized
     /\ LET tokens == Tokens
        IN \/ Len(tokens) % 2 = 1
           \/ \E k \in DOMAIN tokens : tokens[k] = <<>>)
    => time_ranges = [times |-> <<CLOSED_PAIR>>, line |-> 130]

\* C5 witness: the first pair converts, a later token has no partner, and the
\* fallback is returned
C5_Witness ==
    /\ Assigned
    /\ Normalized
    /\ Len(Tokens) = 3
    /\ ConvertPair(Tokens[1], Tokens[2]) # <<>>
    /\ Tokens[3] # <<>>
    /\ time_ranges.line = 130

\* C6: the first pair goes to shift1, the second (if any) to shift2, pairs
\* beyond the second are discarded, an absent shift is "00:00" in both
\* fields, and all four columns are populated.
C6_ShiftAssignment ==
    Assigned =>
        LET x == time_ranges.times
        IN /\ Len(x) >= 1 =>
                  /\ shifts.start_time_shift1 = x[1][1]
                  /\ shifts.end_time_shift1 = x[1][2]
           /\ Len(x) >= 2 =>
                  /\ shifts.start_time_shift2 = x[2][1]
                  /\ shifts.end_time_shift2 = x[2][2]
           /\ Len(x) = 1 =>
                  /\ shifts.start_time_shift2 = CLOSED
                  /\ shifts.end_time_shift2 = CLOSED
           /\ x = <<CLOSED_PAIR>> =>
                  \A f \in DOMAIN shifts : shifts[f] = CLOSED
           /\ \A f \in DOMAIN shifts : IsHHMM(shifts[f])

\* C6 witness: three pairs were parsed, the third differs from the second
C6_Witness ==
    /\ Assigned
    /\ Len(time_ranges.times) = 3
    /\ time_ranges.times[3] # time_ranges.times[2]
    /\ shifts.start_time_shift2 = time_ranges.times[2][1]

\* The cell is a-b for two canonical times a and b
IsCanonRange(s) ==
    /\ Len(s) = 11
    /\ IsHHMM(SubSeq(s, 1, 5))
    /\ s[6] = "-"
    /\ IsHHMM(SubSeq(s, 7, 11))

\* C9: a canonical range a-b yields exactly [[a, b]].
C9_CanonicalRangeUnchanged ==
    (Assigned /\ ~cell.isna /\ IsCanonRange(cell.str)) =>
        time_ranges.times = <<<<SubSeq(cell.str, 1, 5), SubSeq(cell.str, 7, 11)>>>>

\* C9 witness: 13:07-23:59 went through unchanged
C9_Witness ==
    /\ Assigned
    /\ cell = Str(Canon(13, 7) \o <<"-">> \o Canon(23, 59))
    /\ time_ranges.times = <<<<Canon(13, 7), Canon(23, 59)>>>>

\* The pairs of tokens that convert, in the order of the tokens
ConvertedPairs ==
    LET tokens == Tokens
        each == [k \in 1..(Len(tokens) \div 2) |->
                    ConvertPair(tokens[2 * k - 1], tokens[2 * k])]
        kept == SelectSeq(each, LAMBDA p : p # <<>>)
    IN [k \in 1..Len(kept) |-> kept[k][1]]

\* C10: when the tokens pair up and none is empty, the list returned (at
\* line 144) is exactly the pairs that convert, in their order, and it is
\* [["00:00","00:00"]] only when none converts.
C10_FailedPairDroppedAlone ==
    (/\ Assigned
     /\ Normalized
     /\ LET tokens == Tokens
        IN /\ Len(tokens) % 2 = 0
           /\ \A k \in DOMAIN tokens : tokens[k] # <<>>)
    => LET converted == ConvertedPairs
       IN /\ time_ranges.line = 144
          /\ time_ranges.times = IF converted # <<>> THEN converted
                                 ELSE <<CLOSED_PAIR>>

\* C10 witness: of two pairs the second fails to convert and the first is
\* returned
C10_Witness ==
    /\ Assigned
    /\ Normalized
    /\ Len(Tokens) = 4
    /\ \A k \in DOMAIN Tokens : Tokens[k] # <<>>
    /\ ConvertPair(Tokens[1], Tokens[2]) # <<>>
    /\ ConvertPair(Tokens[3], Tokens[4]) = <<>>
    /\ time_ranges.times = ConvertPair(Tokens[1], Tokens[2])


\* A run of 3 or 4 digits followed by am or pm, and nothing else
IsIrregular(t) ==
    /\ Len(t) \in {5, 6}
    /\ \A i \in 1..(Len(t) - 2) : IsDigit(t[i])
    /\ t[Len(t) - 1] \in {"a", "p"}
    /\ t[Len(t)] = "m"

\* An irregular token read as a 12-hour time: the digits before the last two
\* are the hour (1 to 12), the last two the minute (0 to 59); None when they
\* are not a time of the 12-hour clock
IrregularAs12Hour(t) ==
    LET n == Len(t) - 2
        hour == IntOf(SubSeq(t, 1, n - 2))
        minute == IntOf(SubSeq(t, n - 1, n))
    IN IF hour \in 1..12 /\ minute \in 0..59
       THEN Canon(IF t[n + 1] = "a" THEN hour % 12 ELSE (hour % 12) + 12, minute)
       ELSE None

\* What a token of a pair comes to, the marker already inferred: an irregular
\* token is read as a 12-hour time, any other token is converted as it is
TokenTime(t) == IF IsIrregular(t) THEN IrregularAs12Hour(t) ELSE convert_to_24h(t)

\* The pairs of the cell, every token taken after the inference of its marker
\* from the other side of its pair; the pairs with a None side are left out
PairsAfterInference ==
    LET tokens == Tokens
        each == [k \in 1..(Len(tokens) \div 2) |->
                    LET inferred == infer_missing_am_pm(tokens[2 * k - 1], tokens[2 * k])
                    IN <<TokenTime(inferred[1]), TokenTime(inferred[2])>>]
    IN SelectSeq(each, LAMBDA p : p[1] # None /\ p[2] # None)

\* C12: the marker is inferred before the irregular format is fixed and before
\* the conversion: in every pair, a token that is 3 or 4 digits followed by
\* am/pm once the marker missing on one side has been taken from the other
\* side is read as the 12-hour time with a colon before its last two digits
\* (and its pair is dropped when that is not a time), so that "600pm-900pm"
\* and "600-900pm" both yield [["18:00","21:00"]].
C12_InferenceBeforeIrregularFix ==
    /\ (/\ Assigned
        /\ Normalized
        /\ LET tokens == Tokens
           IN /\ Len(tokens) % 2 = 0
              /\ \A k \in DOMAIN tokens : tokens[k] # <<>>)
       => LET pairs == PairsAfterInference
          IN time_ranges.times = IF pairs # <<>> THEN pairs ELSE <<CLOSED_PAIR>>
    /\ (/\ Assigned
        /\ cell \in {Str(<<"6", "0", "0", "p", "m", "-", "9", "0", "0", "p", "m">>),
                     Str(<<"6", "0", "0", "-", "9", "0", "0", "p", "m">>)})
       => time_ranges.times = <<<<Canon(18, 0), Canon(21, 0)>>>>

\* C12 witness: "600-900pm", whose start has no marker of its own, came to
\* 18:00-21:00
C12_Witness ==
    /\ Assigned
    /\ cell = Str(<<"6", "0", "0", "-", "9", "0", "0", "p", "m">>)
    /\ IsIrregular(infer_missing_am_pm(Tokens[1], Tokens[2])[1])
    /\ ~IsIrregular(Tokens[1])
    /\ time_ranges.times = <<<<Canon(18, 0), Canon(21, 0)>>>>

\* ------------------------------------------------------------------------
\* Properties of the queries
\* ------------------------------------------------------------------------

\* Minutes since midnight of a canonical time
MinuteOfDay(t) ==
    60 * (10 * DigitVal(t[1]) + DigitVal(t[2])) + 10 * DigitVal(t[4]) + DigitVal(t[5])

\* start <= now <= end, both bounds included; for canonical times the order
\* of the strings is the order of the times. A missing bound contains nothing.
ShiftContains(start, end, now) ==
    /\ start # None
    /\ end # None
    /\ MinuteOfDay(start) <= MinuteOfDay(now)
    /\ MinuteOfDay(now) <= MinuteOfDay(end)

RowsOf(b) == {i \in DOMAIN BusinessHours : BusinessHours[i].business = b}

RowIsClosed(i) ==
    /\ BusinessHours[i].shift1_start = CLOSED
    /\ BusinessHours[i].shift1_end = CLOSED
    /\ BusinessHours[i].shift2_start = CLOSED
    /\ BusinessHours[i].shift2_end = CLOSED

\* C7: the open-now query returns a business only if one of its hours rows
\* has the current weekday as its day and the current time within its first
\* or its second shift, both bounds included.
C7_OpenNowOnlyWithinShift ==
    request.kind = "open_now" =>
        \A b \in response.ids :
            \E i \in RowsOf(b) :
                /\ BusinessHours[i].day = request.day
                /\ \/ ShiftContains(BusinessHours[i].shift1_start,
                                    BusinessHours[i].shift1_end, request.time)
                   \/ ShiftContains(BusinessHours[i].shift2_start,
                                    BusinessHours[i].shift2_end, request.time)

\* C7 witness: at the last minute of its first shift business 1 is returned,
\* and business 2, whose row for today does not contain that time, is not
C7_Witness ==
    /\ request.kind = "open_now"
    /\ request.time = HHMM("1", "2", "0", "0")
    /\ response.ids = {1}
    /\ \E i \in RowsOf(2) : BusinessHours[i].day = request.day

\* C8: in each of the three queries a business the filter matched is left
\* out of the response if and only if every one of its hours rows has all
\* four shift fields equal to "00:00".
C8_OmittedIffEveryRowClosed ==
    request.kind \in {"category", "day", "open_now"} =>
        /\ response.ids \subseteq response.businesses
        /\ \A b \in response.businesses :
               (b \notin response.ids) <=> (\A i \in RowsOf(b) : RowIsClosed(i))

\* C8 witness: the by-day query returns a business whose row for that day is
\* closed and whose other row is not
C8_Witness ==
    /\ request.kind = "day"
    /\ \E b \in response.ids :
           /\ \E i \in RowsOf(b) :
                  RowIsClosed(i) /\ BusinessHours[i].day = days_map_get(lower(request.arg))
           /\ \E i \in RowsOf(b) : ~RowIsClosed(i)

\* ------------------------------------------------------------------------
\* Properties of the database fill
\* ------------------------------------------------------------------------

\* The canonical day names: the values the by-day query maps its argument to
CanonicalDays == {e[2] : e \in days_map}

\* The rows the loop of fill_db_from_df is through with
RowsDone == 1..(index - 1)

\* The calls made for row r, in their order
CallsFor(r) == SelectSeq(writes, LAMBDA w : w.row = r)

\* C11: for every row of the DataFrame the calls the repository receives are,
\* in this order, one insert_business, then seven insert_business_hours, one
\* for each canonical day name and each with the four shift columns of that
\* day, then one insert_categories (all nine of them once the loop is through
\* with the row); no hours or categories call of a row comes before the row's
\* insert_business, and no call of a later row comes before the
\* insert_categories of an earlier row.
C11_WriteOrderPerRow ==
    /\ \A r \in 1..Len(df) :
           LET calls == CallsFor(r)
               row == df[r]
           IN /\ Len(calls) <= 9
              /\ r \in RowsDone => Len(calls) = 9
              /\ \A j \in DOMAIN calls :
                     /\ j = 1 => calls[j] = Call("insert_business", r, <<row.ID>>)
                     /\ j \in 2..8 =>
                            /\ calls[j].call = "insert_business_hours"
                            /\ calls[j].args[1] = row.ID
                            /\ calls[j].args[2] \in CanonicalDays
                            /\ \A i \in 2..(j - 1) : calls[i].args[2] # calls[j].args[2]
                            /\ SubSeq(calls[j].args, 3, 6) =
                                   <<row.hours[calls[j].args[2]].start_time_shift1,
                                     row.hours[calls[j].args[2]].end_time_shift1,
                                     row.hours[calls[j].args[2]].start_time_shift2,
                                     row.hours[calls[j].args[2]].end_time_shift2>>
                     /\ j = 9 =>
                            /\ calls[j].call = "insert_categories"
                            /\ calls[j].args[1] = row.ID
                            /\ calls[j].args[2] = IF row.categories_split.islist
                                                  THEN row.categories_split.items
                                                  ELSE <<>>
    /\ \A k \in DOMAIN writes :
           /\ writes[k].row \in 1..Len(df)
           /\ writes[k].call # "insert_business" =>
                  \E j \in 1..(k - 1) :
                      writes[j].call = "insert_business" /\ writes[j].row = writes[k].row
    /\ \A j, k \in DOMAIN writes :
           (j < k) =>
               /\ writes[j].row <= writes[k].row
               /\ writes[j].row < writes[k].row =>
                      \E c \in j..(k - 1) :
                          writes[c].call = "insert_categories" /\ writes[c].row = writes[j].row

\* C11 witness: fill_db_from_df returned after two rows with different hours,
\* the first with a categories_split that is not a list: eighteen calls
C11_Witness ==
    /\ fill_pc = "done"
    /\ Len(df) = 2
    /\ df[1].hours # df[2].hours
    /\ ~df[1].categories_split.islist
    /\ Len(writes) = 18
    /\ Len(BusinessHours) = 14

====
